---- MODULE Spec2Model ----
(***************************************************************************)
(* BERT-for-sequence-classification.ipynb as a state machine.              *)
(*                                                                         *)
(* The notebook runs three code cells in sequence:                         *)
(*   fatty-activation   : load the AG-news split, keep ex_input            *)
(*   closing-numbers    : load config, tokenizer and model from the hub    *)
(*   removable-realtor  : the inference loop over ex_input                 *)
(* The loop cell may be executed again afterwards (Rerun).                 *)
(*                                                                         *)
(* Numbers.  The logits and probabilities are float32 tensors.  They are   *)
(* modelled on the following exactly-computable part of float32:           *)
(*   - a logit is <<k, t>>, the real number k*ln(2) - t*eps, where k is an *)
(*     integer, t is 0 or 1 and eps is a positive float far below half an  *)
(*     ulp of 1.0, so that exp(-eps) rounds to 1.0;                        *)
(*   - exp(x - max) is then a power of two, and the probabilities are kept *)
(*     in fixed point with FracBits fractional bits (the float32           *)
(*     significand), rounded to nearest.                                   *)
(***************************************************************************)
EXTENDS Integers, Sequences, FiniteSets, TLC

VARIABLES
    split,            \* the 'train' split of ag_news_subset on disk
    hub,              \* the pretrained artifact 'nateraw/bert-base-uncased-ag-news'
    ex_input,         \* list of the records kept by the first cell
    config,           \* AutoConfig object (id2label, max_position_embeddings)
    tokenizer,        \* AutoTokenizer object
    model,            \* AutoModelForSequenceClassification weights
    pc,               \* statement the interpreter is at
    it,               \* position of the for-loop's iterator in ex_input
    d,                \* loop variable: the current record
    art,              \* decoded article text
    labs,             \* list(config.id2label.values())
    actual_class,     \* labs[d['label']]
    inp,              \* tokenizer output: input_ids and attention_mask
    out,              \* softmax of the logits, shape (1, C)
    class_ind,        \* np.argmax(out[0])
    predicted_class,  \* labs[class_ind]
    stdout,           \* what the loop cell has printed in its current execution
    run,              \* number of executions of the loop cell started so far
    raised,           \* the exception that ended the current execution, if any
    trace,            \* history: the steps executed, in order
    prev_trace        \* history: the trace of the previous execution of the loop cell

vars == <<split, hub, ex_input, config, tokenizer, model, pc, it, d, art, labs,
          actual_class, inp, out, class_ind, predicted_class, stdout, run,
          raised, trace, prev_trace>>

\* A name that no statement has bound yet holds a placeholder of its type.
NoList == <<>>
NoObject == [bound |-> FALSE]
NoStr == "None"
NoInt == 0 - 1

\* ---------------------------------------------------------------- bounds

\* number of records of the largest split considered
MaxSplitLen == 27
\* number of different orders in which the text pool fills a split
NumShifts == 3
\* largest |k| of a logit k*ln(2) - t*eps
MaxLogit == 40
\* number of executions of the loop cell
MaxRuns == 2

\* ------------------------------------------------------ program constants

\* ds['train'].take(25)
TakeCount == 25
\* [-5:]
TailCount == 5
\* number of classes of the AG-news label schema {0: world, ..., 3: sci/tech}
C == 4
\* max_position_embeddings of bert-base-uncased: the longest input the model accepts
L == 512
\* fractional bits of the probabilities (float32 significand)
FracBits == 24

Min(a, b) == IF a < b THEN a ELSE b
Max(a, b) == IF a > b THEN a ELSE b

Pow2(n) == 2 ^ n

\* 1.0 in fixed point
One == Pow2(FracBits)

\* ------------------------------------------------------------ corpus loader

\* tf.data.Dataset.take(n): the first n elements, or all of them if fewer
Take(s, n) == SubSeq(s, 1, Min(n, Len(s)))

\* faulty variant: s[:n] in place of s[-n:]
FirstN(s, n) == SubSeq(s, 1, Min(n, Len(s)))

\* Python's s[-n:]: the last n elements, or all of them if fewer
LastN(s, n) == SubSeq(s, Max(1, Len(s) - n + 1), Len(s))

\* ex_input = list(ds['train'].take(25))[-5:]
ExInput(s) == LastN(Take(s, TakeCount), TailCount)

\* ------------------------------------------------------------------ texts

\* A text is a sequence of words.  The short texts hold the empty string and
\* upper-case and out-of-vocabulary words; FitText tokenizes to exactly L
\* ids and LongText to L + 1 ids.
FitText == [j \in 1..(L - 2) |-> "the"]
LongText == [j \in 1..(L - 1) |-> "the"]
ShortTexts == << <<"The", "irish">>, <<>>, <<"zzz">>, <<"the", "irish", "the">>,
                 <<"irish">>, <<"zzz", "The">> >>

\* A split of n records holds one long text; the shift moves it through the
\* records that the first cell keeps, and out of them.
LongAt(n, shift) == Min(n, TakeCount) - 2 * shift

\* A record of the dataset: the description is a bytes object, the label an
\* integer in 0..C-1.
Record(n, k, shift) ==
    [description |->
        [bytes |-> IF k = LongAt(n, shift)
                   THEN (IF shift = 0 THEN FitText ELSE LongText)
                   ELSE ShortTexts[((k + shift) % Len(ShortTexts)) + 1]],
     label |-> (k + 2 * shift) % C]

SplitOf(n, shift) == [k \in 1..n |-> Record(n, k, shift)]

Splits == {SplitOf(n, s) : n \in {3, TakeCount, MaxSplitLen}, s \in 0..(NumShifts - 1)}

\* bytes.decode('utf-8')
Utf8Decode(b) == b.bytes

\* ------------------------------------------------------------- hub artifact

\* a logit k*ln(2) - t*eps
LogitVals == {<<-MaxLogit, 0>>, <<0, 1>>, <<0, 0>>, <<MaxLogit, 0>>, <<1, 0>>}

\* The classifier head's weights.  Only the first two entries vary freely;
\* the others are tied to them so that the set stays small.
WeightSet ==
    {<<a, b, c, <<-1, 0>> >> : a \in LogitVals, b \in LogitVals, c \in {<<0, 0>>, <<-MaxLogit, 0>>}}

Hubs ==
    {[id2label |-> <<"World", "Sports", "Business", "Sci/Tech">>,
      max_position_embeddings |-> L,
      do_lower_case |-> TRUE,
      vocab |-> [the |-> 1996, irish |-> 3493],
      cls_token_id |-> 101, sep_token_id |-> 102, unk_token_id |-> 100,
      pad_token_id |-> 0, model_max_length |-> L,
      weights |-> w] : w \in WeightSet}

\* --------------------------------------------------------------- tokenizer

\* lower-casing of the uncased tokenizer
Lower(w) == IF w = "The" THEN "the" ELSE w

\* vocabulary lookup of one word; a word outside the vocabulary becomes [UNK]
WordId(tok, w) ==
    LET n == IF tok.do_lower_case THEN Lower(w) ELSE w
    IN  IF n \in DOMAIN tok.vocab THEN tok.vocab[n] ELSE tok.unk_token_id

\* faulty variant: the call with padding='max_length', truncation=True
TokenizePadTruncate(tok, text) ==
    LET n == Min(Len(text), tok.model_max_length - 2)
        ids == <<tok.cls_token_id>> \o [j \in 1..n |-> WordId(tok, text[j])]
               \o <<tok.sep_token_id>>
    IN  [input_ids |-> [j \in 1..tok.model_max_length |->
                           IF j <= Len(ids) THEN ids[j] ELSE tok.pad_token_id],
         token_type_ids |-> [j \in 1..tok.model_max_length |-> 0],
         attention_mask |-> [j \in 1..tok.model_max_length |->
                                IF j <= Len(ids) THEN 1 ELSE 0]]

\* tokenizer(art, return_tensors='pt'): [CLS] ids [SEP].  No padding and no
\* truncation argument is passed, so neither is applied (the defaults).
Tokenize(tok, text) ==
    LET ids == <<tok.cls_token_id>> \o [j \in 1..Len(text) |-> WordId(tok, text[j])]
               \o <<tok.sep_token_id>>
    IN  [input_ids |-> ids,
         token_type_ids |-> [j \in 1..Len(ids) |-> 0],
         attention_mask |-> [j \in 1..Len(ids) |-> 1]]

\* -------------------------------------------------------------- classifier

\* the sum of the token ids that the attention mask lets through (summed by
\* halves, which keeps the evaluation shallow)
AttendedSum(x) ==
    LET n == Len(x.input_ids)
        S[lo \in 1..(n + 1), hi \in 0..n] ==
            IF lo > hi THEN 0
            ELSE IF lo = hi THEN x.input_ids[lo] * x.attention_mask[lo]
            ELSE S[lo, (lo + hi) \div 2] + S[((lo + hi) \div 2) + 1, hi]
    IN  S[1, n]

\* faulty variant: the model left in training mode: dropout makes the scores depend
\* on the state of the random generator, which advances from run to run
LogitsTrainMode(m, x) ==
    LET key == (AttendedSum(x) + run) % C
    IN  SubSeq(m.weights \o m.weights, key + 1, key + C)

\* The encoder and the classification head, as a deterministic function of
\* the attended token ids and the weights: the ids select the order in which
\* the head's weights appear as class scores (class c gets the weight at
\* position ((c - 1 + key) % C) + 1).
Logits(m, x) ==
    LET key == AttendedSum(x) % C
    IN  SubSeq(m.weights \o m.weights, key + 1, key + C)

\* the position embeddings cover max_position_embeddings positions only
TooLong(m, x) == Len(x.input_ids) > m.max_position_embeddings

\* faulty variant: a forward pass followed by an optimizer step on the head
GradStepForward(m, x) ==
    [logits |-> Logits(m, x),
     model |-> [m EXCEPT !.weights = SubSeq(m.weights \o m.weights, 2, C + 1)]]

\* with torch.no_grad(): model(**inp) -- the logits, and the model afterwards
NoGradForward(m, x) == [logits |-> Logits(m, x), model |-> m]

\* ----------------------------------------------------------------- softmax

\* a < b for logits: k*ln(2) - t*eps
LogitLess(a, b) == a[1] < b[1] \/ (a[1] = b[1] /\ a[2] > b[2])

\* the maximum of a vector of logits
MaxOf(x) == CHOOSE m \in {x[c] : c \in DOMAIN x} : \A c \in DOMAIN x : ~LogitLess(m, x[c])

\* float32 exp of x - m for x <= m, in fixed point: a power of two; the eps
\* part is lost in the rounding, and differences below 2^-FracBits underflow
ExpShifted(x, m) ==
    LET dk == x[1] - m[1]
    IN  IF dk < -FracBits THEN 0 ELSE Pow2(FracBits + dk)

\* long division, four bits at a time: <<quotient, remainder>> of
\* r * 2^bits by den, for r < den
LongDiv[r \in Nat, den \in Nat, bits \in Nat, q \in Nat] ==
    IF bits = 0 THEN <<q, r>>
    ELSE LongDiv[(16 * r) % den, den, bits - 4, 16 * q + ((16 * r) \div den)]

\* num / den in fixed point, rounded to nearest, for 0 <= num <= den
DivRound(num, den) ==
    IF num = den THEN One
    ELSE LET qr == LongDiv[num, den, FracBits, 0]
         IN  IF 2 * qr[2] >= den THEN qr[1] + 1 ELSE qr[1]

RECURSIVE SumVec(_, _)
SumVec(e, n) == IF n = 0 THEN 0 ELSE e[n] + SumVec(e, n - 1)

\* faulty variant: normalising by the largest term instead of the sum
DenominatorMax(e) == CHOOSE v \in {e[c] : c \in DOMAIN e} : \A c \in DOMAIN e : e[c] <= v

\* the denominator of the softmax
Denominator(e) == SumVec(e, Len(e))

\* torch.softmax(logits, dim=-1): exp(x_i - max) / sum_j exp(x_j - max)
Softmax(x) ==
    LET m == MaxOf(x)
        e == [c \in DOMAIN x |-> ExpShifted(x[c], m)]
        s == Denominator(e)
    IN  [c \in DOMAIN x |-> DivRound(e[c], s)]

\* faulty variant: the last occurrence of the maximum
NpArgmaxLast(p) ==
    (CHOOSE c \in DOMAIN p :
        /\ \A j \in DOMAIN p : p[j] <= p[c]
        /\ \A j \in DOMAIN p : j > c => p[j] < p[c]) - 1

\* np.argmax(p): the index (from 0) of the first occurrence of the maximum
NpArgmax(p) ==
    (CHOOSE c \in DOMAIN p :
        /\ \A j \in DOMAIN p : p[j] <= p[c]
        /\ \A j \in DOMAIN p : j < c => p[j] < p[c]) - 1

\* ------------------------------------------------------------- postprocess

\* faulty variant: the values paired in reverse order
ZipReversed(a, b) == [j \in 1..Min(Len(a), Len(b)) |-> <<a[j], b[Len(b) - j + 1]>>]

\* zip(a, b): pairs up to the shorter length
Zip(a, b) == [j \in 1..Min(Len(a), Len(b)) |-> <<a[j], b[j]>>]

\* {k: v for k, v in pairs}: a later pair with the same key wins
DictOf(pairs) ==
    [k \in {pairs[j][1] : j \in DOMAIN pairs} |->
        pairs[CHOOSE j \in DOMAIN pairs :
                 /\ pairs[j][1] = k
                 /\ \A i \in DOMAIN pairs : pairs[i][1] = k => i <= j][2]]

\* faulty variant: iteration from the end of the list
IterItemReversed(s, n) == s[Len(s) - n]

\* the element the for-loop's iterator yields at position n (from 0)
IterItem(s, n) == s[n + 1]

\* indexing of a Python list with an index from 0
ListItem(s, n) == s[n + 1]

Event(step, val) == [rec |-> it, step |-> step, val |-> val]

\* ------------------------------------------------------------------- state

Init ==
    /\ split \in Splits
    /\ hub \in Hubs
    /\ ex_input = NoList
    /\ config = NoObject
    /\ tokenizer = NoObject
    /\ model = NoObject
    /\ pc = "load_dataset"
    /\ it = 0
    /\ d = NoObject
    /\ art = NoList
    /\ labs = NoList
    /\ actual_class = NoStr
    /\ inp = NoObject
    /\ out = NoList
    /\ class_ind = NoInt
    /\ predicted_class = NoStr
    /\ stdout = <<>>
    /\ run = 0
    /\ raised = NoObject
    /\ trace = <<>>
    /\ prev_trace = <<>>

\* cell fatty-activation
LoadDataset ==
    /\ pc = "load_dataset"
    /\ ex_input' = ExInput(split)
    /\ pc' = "load_model"
    /\ UNCHANGED <<split, hub, config, tokenizer, model, it, d, art, labs,
                   actual_class, inp, out, class_ind, predicted_class, stdout,
                   run, raised, trace, prev_trace>>

\* cell closing-numbers
LoadModel ==
    /\ pc = "load_model"
    /\ config' = [id2label |-> hub.id2label,
                  max_position_embeddings |-> hub.max_position_embeddings]
    /\ tokenizer' = [do_lower_case |-> hub.do_lower_case, vocab |-> hub.vocab,
                     cls_token_id |-> hub.cls_token_id,
                     sep_token_id |-> hub.sep_token_id,
                     unk_token_id |-> hub.unk_token_id,
                     pad_token_id |-> hub.pad_token_id,
                     model_max_length |-> hub.model_max_length]
    /\ model' = [weights |-> hub.weights,
                 max_position_embeddings |-> config'.max_position_embeddings]
    /\ pc' = "for"
    /\ run' = 1
    /\ UNCHANGED <<split, hub, ex_input, it, d, art, labs, actual_class, inp,
                   out, class_ind, predicted_class, stdout, raised, trace,
                   prev_trace>>

\* faulty variant: the iterator advances by two
ForNextSkip ==
    /\ pc = "for"
    /\ IF it < Len(ex_input)
       THEN /\ d' = IterItem(ex_input, it)
            /\ it' = it + 2
            /\ pc' = "read"
       ELSE /\ pc' = "done"
            /\ UNCHANGED <<d, it>>
    /\ UNCHANGED <<split, hub, ex_input, config, tokenizer, model, art, labs,
                   actual_class, inp, out, class_ind, predicted_class, stdout,
                   run, raised, trace, prev_trace>>

\* for d in ex_input:
ForNext ==
    /\ pc = "for"
    /\ IF it < Len(ex_input)
       THEN /\ d' = IterItem(ex_input, it)
            /\ it' = it + 1
            /\ pc' = "read"
       ELSE /\ pc' = "done"
            /\ UNCHANGED <<d, it>>
    /\ UNCHANGED <<split, hub, ex_input, config, tokenizer, model, art, labs,
                   actual_class, inp, out, class_ind, predicted_class, stdout,
                   run, raised, trace, prev_trace>>

\* art = ...; labs = ...; actual_class = labs[d['label'].numpy()]
ReadRecord ==
    /\ pc = "read"
    /\ art' = Utf8Decode(d.description)
    /\ labs' = config.id2label
    /\ actual_class' = ListItem(labs', d.label)
    /\ pc' = "tokenize"
    /\ UNCHANGED <<split, hub, ex_input, config, tokenizer, model, it, d, inp,
                   out, class_ind, predicted_class, stdout, run, raised, trace,
                   prev_trace>>

\* inp = tokenizer(art, return_tensors='pt')
TokenizeStep ==
    /\ pc = "tokenize"
    /\ inp' = Tokenize(tokenizer, art)
    /\ trace' = Append(trace, Event("tokenize", inp'))
    /\ pc' = "forward"
    /\ UNCHANGED <<split, hub, ex_input, config, tokenizer, model, it, d, art,
                   labs, actual_class, out, class_ind, predicted_class, stdout,
                   run, raised, prev_trace>>

\* with torch.no_grad(): out = torch.softmax(model(**inp).logits, dim = -1)
\* An input longer than the position embeddings makes the forward pass raise;
\* nothing catches the exception, so the execution of the cell ends there.
Classify ==
    /\ pc = "forward"
    /\ IF TooLong(model, inp)
       THEN /\ raised' = [kind |-> "IndexError", rec |-> it]
            /\ trace' = Append(trace, Event("raise", "IndexError"))
            /\ pc' = "error"
            /\ UNCHANGED <<out, model>>
       ELSE \E r \in {NoGradForward(model, inp)} : \E p \in {Softmax(r.logits)} :
                /\ out' = p
                /\ model' = r.model
                /\ trace' = Append(trace, Event("classify", [logits |-> r.logits, out |-> p]))
                /\ pc' = "argmax"
                /\ UNCHANGED raised
    /\ UNCHANGED <<split, hub, ex_input, config, tokenizer, it, d, art, labs,
                   actual_class, inp, class_ind, predicted_class, stdout, run,
                   prev_trace>>

\* class_ind = np.argmax(out[0]); predicted_class = labs[class_ind]
Predict ==
    /\ pc = "argmax"
    /\ class_ind' = NpArgmax(out)
    /\ predicted_class' = ListItem(labs, class_ind')
    /\ trace' = Append(trace, Event("predict", [class_ind |-> class_ind',
                                                predicted_class |-> predicted_class']))
    /\ pc' = "report"
    /\ UNCHANGED <<split, hub, ex_input, config, tokenizer, model, it, d, art,
                   labs, actual_class, inp, out, stdout, run, raised, prev_trace>>

\* output_dict = {k:v for k, v in zip(config.id2label.values(), out[0])}; print(...)
Report ==
    /\ pc = "report"
    /\ LET output_dict == DictOf(Zip(config.id2label, out))
       IN  stdout' = Append(stdout, [Article |-> art, Actual_class |-> actual_class,
                                     Predictions |-> output_dict])
    /\ trace' = Append(trace, Event("report", stdout'[Len(stdout')]))
    /\ pc' = "for"
    /\ UNCHANGED <<split, hub, ex_input, config, tokenizer, model, it, d, art,
                   labs, actual_class, inp, out, class_ind, predicted_class, run,
                   raised, prev_trace>>

\* The loop cell is executed again: its output area is cleared and the loop
\* starts from the first record; every global keeps its value.
Rerun ==
    /\ pc \in {"done", "error"}
    /\ run < MaxRuns
    /\ run' = run + 1
    /\ it' = 0
    /\ stdout' = <<>>
    /\ raised' = NoObject
    /\ prev_trace' = trace
    /\ trace' = <<>>
    /\ pc' = "for"
    /\ UNCHANGED <<split, hub, ex_input, config, tokenizer, model, d, art, labs,
                   actual_class, inp, out, class_ind, predicted_class>>

LoopStep == ForNext \/ ReadRecord \/ TokenizeStep \/ Classify \/ Predict \/ Report

Next == LoadDataset \/ LoadModel \/ LoopStep \/ Rerun

Spec == Init /\ [][Next]_vars

\* The interpreter keeps executing the statements of a cell it has started
\* (every statement moves pc).
FairSpec == Spec /\ WF_pc(LoadDataset \/ LoadModel \/ LoopStep)

\* ------------------------------------------------------------------ claims

\* the loop cell has been started
Started == run >= 1

\* the execution of the loop cell has ended
Halted == pc \in {"done", "error"}

\* number of iterations of the current execution that ran to their end
Completed == IF pc \in {"for", "done"} THEN it ELSE it - 1

\* the events of trace tr for record r with step st
EventsOf(tr, r, st) == {j \in 1..Len(tr) : tr[j].rec = r /\ tr[j].step = st}

\* the value recorded for record r at step st
ValueOf(tr, r, st) == tr[CHOOSE j \in EventsOf(tr, r, st) : TRUE].val

\* the text of a record of the dataset
TextOf(r) == r.description.bytes

\* c is the index (from 0) of the first maximum of the probabilities p
IsFirstArgMax(p, c) ==
    /\ c \in 0..(C - 1)
    /\ \A j \in 1..C : p[j] <= p[c + 1]
    /\ \A j \in 1..C : j < c + 1 => p[j] < p[c + 1]

\* c is the index (from 0) of the first maximum of the logits x
IsFirstMaxLogit(x, c) ==
    /\ c \in 0..(C - 1)
    /\ \A j \in 1..C : ~LogitLess(x[c + 1], x[j])
    /\ \A j \in 1..C : j < c + 1 => LogitLess(x[j], x[c + 1])

\* the logits of the record being processed
CurrentLogits == ValueOf(trace, it, "classify").logits

\* 1e-6 in fixed point
Tolerance == One \div 1000000

\* C1: every record whose iteration ran to its end has exactly one report, in
\* which the article is the record's text, the actual class is the label
\* schema's name at the record's label, and the predictions hold one entry
\* per class name, the entry of the i-th name being the probability of class i.
C1_ReportPerRecord ==
    Started =>
        /\ Len(stdout) = Completed
        /\ \A r \in 1..Completed :
              /\ Cardinality(EventsOf(trace, r, "report")) = 1
              /\ ValueOf(trace, r, "report") = stdout[r]
              /\ stdout[r].Article = TextOf(ex_input[r])
              /\ stdout[r].Actual_class = hub.id2label[ex_input[r].label + 1]
              /\ DOMAIN stdout[r].Predictions = {hub.id2label[c] : c \in 1..C}
              /\ \A c \in 1..C :
                    stdout[r].Predictions[hub.id2label[c]]
                        = ValueOf(trace, r, "classify").out[c]

C1_Witness ==
    /\ pc = "done"
    /\ Len(stdout) = TailCount
    /\ \E c \in 1..C : stdout[TailCount].Predictions[hub.id2label[c]] = One

\* C2: the probabilities computed from any logits are all >= 0 and sum to 1
\* within 1e-6.
C2_Probabilities ==
    pc = "argmax" =>
        /\ DOMAIN out = 1..C
        /\ \A c \in 1..C : out[c] >= 0
        /\ out[1] + out[2] + out[3] + out[4] - One <= Tolerance
        /\ One - (out[1] + out[2] + out[3] + out[4]) <= Tolerance

C2_Witness ==
    /\ pc = "argmax"
    /\ \E a, b \in 1..C : CurrentLogits[a][1] = MaxLogit /\ CurrentLogits[b][1] = -MaxLogit
    /\ \E c \in 1..C : out[c] = 0

\* C3 as stated: the predicted label is the first arg-max of the
\* probabilities, it is the first arg-max of the logits too, and the predicted
\* class is the label schema's name at that index.
C3_Original ==
    pc = "report" =>
        /\ IsFirstArgMax(out, class_ind)
        /\ IsFirstMaxLogit(CurrentLogits, class_ind)
        /\ predicted_class = hub.id2label[class_ind + 1]

\* C3 as amended: the predicted label is the first arg-max of the
\* probabilities and the predicted class is the label schema's name at that
\* index; the first arg-max of the logits carries the maximal probability,
\* and the predicted label is that index or a lower one whose logit lies
\* below the maximum by less than the exponential resolves.
C3_ArgMax ==
    pc = "report" =>
        /\ IsFirstArgMax(out, class_ind)
        /\ predicted_class = hub.id2label[class_ind + 1]
        /\ \E a \in 0..(C - 1) :
              /\ IsFirstMaxLogit(CurrentLogits, a)
              /\ out[a + 1] = out[class_ind + 1]
              /\ class_ind <= a
              /\ CurrentLogits[class_ind + 1][1] = CurrentLogits[a + 1][1]

C3_Witness ==
    /\ pc = "report"
    /\ ~IsFirstMaxLogit(CurrentLogits, class_ind)

C5_ContinuesAfterError ==
    Halted =>
        \A r \in 1..Len(ex_input) :
            \/ Cardinality(EventsOf(trace, r, "report")) = 1
            \/ Cardinality(EventsOf(trace, r, "raise")) = 1

\* order of the steps of one iteration
StepNo(st) == CASE st = "tokenize" -> 1 [] st = "classify" -> 2 [] st = "raise" -> 2
                [] st = "predict" -> 3 [] st = "report" -> 4

\* C6: the steps of a record all come before any step of the next record, in
\* the order tokenize, classify, report, and the reports appear in the order
\* of the records of the input.
C6_Sequential ==
    /\ \A j \in 1..Len(trace) :
          IF j = 1 THEN trace[j].rec = 1 /\ trace[j].step = "tokenize"
          ELSE \/ /\ trace[j].rec = trace[j - 1].rec
                  /\ StepNo(trace[j].step) = StepNo(trace[j - 1].step) + 1
               \/ /\ trace[j].rec = trace[j - 1].rec + 1
                  /\ trace[j - 1].step = "report"
                  /\ trace[j].step = "tokenize"
    /\ \A j \in 1..Len(trace) :
          trace[j].step = "tokenize" =>
              Len(trace[j].val.input_ids) = Len(TextOf(ex_input[trace[j].rec])) + 2
    /\ \A r \in 1..Len(stdout) : stdout[r].Article = TextOf(ex_input[r])

C6_Witness ==
    /\ pc = "done"
    /\ Len(trace) = 4 * TailCount
    /\ \A r \in 1..(TailCount - 1) : stdout[r].Article # stdout[r + 1].Article

\* C7 as stated: the records fed to the loop are the first N records of the
\* split, in order.
C7_Original ==
    pc # "load_dataset" => \E n \in 0..Len(split) : ex_input = SubSeq(split, 1, n)

\* C7 as amended: take(25) keeps the first 25 records of the split in order,
\* and the records fed to the loop are the last 5 of those, in order (records
\* 21 to 25 of a split of 25 or more records).
C7_TailOfTake ==
    pc # "load_dataset" =>
        LET taken == Min(TakeCount, Len(split))
        IN  /\ Len(ex_input) = Min(TailCount, taken)
            /\ \A j \in 1..Len(ex_input) :
                  ex_input[j] = split[taken - Len(ex_input) + j]

C7_Witness ==
    /\ pc # "load_dataset"
    /\ Len(split) > TakeCount
    /\ ex_input[1] = split[TakeCount - TailCount + 1]
    /\ ex_input[1] # split[1]

\* C8: a further execution of the loop over the same records with the same
\* model and tokenizer repeats the previous one step by step: the same token
\* ids, logits, probabilities, predicted label and report for every record.
C8_Idempotent ==
    run >= 2 =>
        /\ Len(trace) <= Len(prev_trace)
        /\ \A j \in 1..Len(trace) : trace[j] = prev_trace[j]
        /\ Halted => trace = prev_trace

C8_Witness ==
    /\ run = 2
    /\ pc = "done"
    /\ Len(trace) = 4 * TailCount
    /\ trace = prev_trace

\* C9: once loaded, the model, the tokenizer, the label schema and the
\* records are left unchanged by every step of the loop and by running the
\* loop again; they are assigned only by the two loading cells.
C9_Frozen ==
    [][/\ pc \notin {"load_dataset", "load_model"} =>
            /\ model' = model
            /\ tokenizer' = tokenizer
            /\ config' = config
            /\ ex_input' = ex_input
       /\ pc # "load_dataset" => ex_input' = ex_input
       /\ pc # "load_model" => (model' = model /\ tokenizer' = tokenizer /\ config' = config)
       /\ hub' = hub /\ split' = split]_vars

C9_Witness ==
    /\ run = 2
    /\ Halted
    /\ Len(trace) >= 3
    /\ model.weights = hub.weights
    /\ config.id2label = hub.id2label

\* every record has been tokenized, classified, predicted and reported once
EachOnce ==
    /\ Len(trace) = 4 * Len(ex_input)
    /\ \A r \in 1..Len(ex_input) :
          \A st \in {"tokenize", "classify", "predict", "report"} :
              Cardinality(EventsOf(trace, r, st)) = 1
    /\ Len(stdout) = Len(ex_input)
    /\ Len(ex_input) > 0 =>
          /\ trace[Len(trace)].rec = Len(ex_input)
          /\ trace[Len(trace)].step = "report"

\* C10: every execution of the loop cell ends; when it ends without an
\* error, each record has been tokenized, classified and reported exactly
\* once and the last step was the report of the last record.
C10_SinglePass ==
    /\ [](pc = "done" => EachOnce)
    /\ [](pc = "error" => raised.rec = it /\ trace[Len(trace)].step = "raise")
    /\ (pc = "for" /\ it = 0) ~> Halted

C10_Witness ==
    /\ pc = "done"
    /\ run = 1
    /\ Len(ex_input) = TailCount
    /\ Len(trace) = 4 * Len(ex_input)

====
